---- MODULE Spec2Model ----
(***************************************************************************)
(* A model of react-updater's withUpdater higher-order component           *)
(* (src/index.js): the memoized callback-handler cache, the `handle` and   *)
(* `update` handler factories, the state container with its sentinel       *)
(* wrapping of non-record state, and the setState commit pipeline with the *)
(* persist/destructor life cycle of pooled events.                         *)
(***************************************************************************)
EXTENDS Integers, Sequences, FiniteSets, TLC

VARIABLES
  production,                \* process.env.NODE_ENV === 'production'
  initialState,              \* the argument of withUpdater(initialState)
  props,                     \* the props the instance was constructed with
  initialStateCalls,         \* arguments of every invocation of initialState
  state,                     \* this.state
  memoizedCallbackHandlers,  \* this.memoizedCallbackHandlers (Null after unmount)
  handlers,                  \* every handler function built so far, by reference
  callLog,                   \* the calls of this.handle / this.update so far
  invocations,               \* the invocations of issued handlers so far
  events,                    \* per event object: persist() and destructor() calls
  queue,                     \* React's pending update queue of the instance
  workState,                 \* the state being computed while the queue is processed
  completions,               \* setState completion callbacks awaiting the commit
  applied,                   \* invocations whose transition was applied, in order
  rendered,                  \* the `state` prop last passed to WrappedComponent
  phase,                     \* "idle", "render" (processing updates), "commit"
  mounted                    \* FALSE once componentWillUnmount has run

vars == <<production, initialState, props, initialStateCalls, state,
          memoizedCallbackHandlers, handlers, callLog, invocations, events,
          queue, workState, completions, applied, rendered, phase, mounted>>

(***************************************************************************)
(* Bounds of the model.                                                    *)
(***************************************************************************)
\* The number of factory calls plus handler invocations of one run.
MaxOperations == 4

(***************************************************************************)
(* JavaScript values.  Primitives and event objects are tagged records;    *)
(* a plain object is a function from its own keys to values.               *)
(***************************************************************************)
Num(n) == [t |-> "number", v |-> n]
NaN == [t |-> "NaN", v |-> 0]
Undefined == [t |-> "undefined", v |-> 0]
Str == [t |-> "string", v |-> 0]
Ev(e) == [t |-> "event", v |-> e]
Obj(c) == ("count" :> c)

IsPlainObject(x) == "t" \notin DOMAIN x
Tag(x) == IF IsPlainObject(x) THEN "object" ELSE x.t

STATE_PROPERTY_NAME == "@@STATE"

Null == <<>>
Some(x) == <<x>>

HasSentinel(s) == STATE_PROPERTY_NAME \in DOMAIN s

(***************************************************************************)
(* The source callbacks the wrapped component presents.  incA and incB are *)
(* two closures of the same declaration (same name, same source text);     *)
(* anon is an arrow function without a name.                               *)
(*   function increment(state, step) { return { count: state.count + step } } *)
(*   function times(state, k) { return state * k }                         *)
(*   (state, k) => state * k                                               *)
(***************************************************************************)
Callbacks == {"incA", "incB", "times", "anon"}

CallbackName(callback) ==
  CASE callback \in {"incA", "incB"} -> "increment"
    [] callback = "times" -> "times"
    [] OTHER -> ""

CallbackSource(callback) ==
  CASE callback \in {"incA", "incB"} ->
         "function increment(state, step) { return { count: state.count + step } }"
    [] callback = "times" -> "function times(state, k) { return state * k }"
    [] OTHER -> "(state, k) => state * k"

\* The calls of props.handle / props.update the wrapped component makes.
CallSites ==
  { <<"update", "incA", <<Num(1)>> >>, <<"update", "incB", <<Num(1)>> >>,
    <<"update", "incA", <<Num(2)>> >>, <<"update", "times", <<Num(2)>> >>,
    <<"update", "anon", <<Num(2)>> >>,
    <<"handle", "incA", <<Num(1)>> >> }

\* Event objects: all have persist(); 1 and 2 have destructor(), 3 has none.
EventIds == {1, 2, 3}
\* The call-time arguments handed to update handlers and to handle handlers.
ArgLists == {<<>>, <<Num(2), Ev(1), Ev(2)>>, <<Ev(3)>>}
HandleArgLists == {<<>>, <<Num(2)>>}

HasPersist(x) == Tag(x) = "event"
HasDestructor(x) == Tag(x) = "event" /\ x.v \in {1, 2}

(***************************************************************************)
(* Evaluation of the source callbacks on an argument vector, with the      *)
(* JavaScript meaning of a missing argument, of a property read on a       *)
(* non-object and of + and * on non-numbers.                               *)
(***************************************************************************)
Arg(argv, i) == IF i <= Len(argv) THEN argv[i] ELSE Undefined

GetCount(x) ==
  IF IsPlainObject(x) /\ "count" \in DOMAIN x THEN x["count"] ELSE Undefined

AddJs(a, b) ==
  IF Tag(a) = "number" /\ Tag(b) = "number" THEN Num(a.v + b.v)
  ELSE IF {Tag(a), Tag(b)} \cap {"object", "event", "string"} # {} THEN Str
  ELSE NaN

MulJs(a, b) ==
  IF Tag(a) = "number" /\ Tag(b) = "number" THEN Num(a.v * b.v) ELSE NaN

Apply(callback, argv) ==
  IF callback \in {"incA", "incB"}
  THEN Obj(AddJs(GetCount(Arg(argv, 1)), Arg(argv, 2)))
  ELSE MulJs(Arg(argv, 1), Arg(argv, 2))

(***************************************************************************)
(* The serializers of ./utils: stringify gives the JSON text of the bound  *)
(* parameters, stringifyFunction the text identifying the function's code. *)
(***************************************************************************)
StringifyValue(x) ==
  CASE Tag(x) = "number" -> ToString(x.v)
    [] Tag(x) \in {"NaN", "undefined"} -> "null"
    [] OTHER -> "{}"

RECURSIVE StringifyItems(_)
StringifyItems(xs) ==
  IF Len(xs) = 0 THEN ""
  ELSE IF Len(xs) = 1 THEN StringifyValue(xs[1])
  ELSE StringifyValue(xs[1]) \o "," \o StringifyItems(Tail(xs))

stringify(params) == "[" \o StringifyItems(params) \o "]"

stringifyFunction(callback) == CallbackSource(callback)

(***************************************************************************)
(* createCallbackHandler (lines 48-84) and its two uses, handle and update.*)
(***************************************************************************)
NOOP == 0
THROWN == -1

Kinds == {"handle", "update"}

\* The handler closure a builder returns captures the callback and params.
CreateHandler(name, callback, params) ==
  [kind |-> name, callback |-> callback, params |-> params]

\* Faulty variant of HandleArgv: the call-time arguments come first.
HandleArgvSwapped(params, args) == args \o params

\* The argument vector a `handle` handler calls its callback with (line 92).
HandleArgv(params, args) == params \o args

\* Faulty variant of Enqueue: the newest request is processed first.
EnqueueFront(q, i) == <<i>> \o q

\* this.setState(updater, completion) (line 121): React appends the request.
Enqueue(q, i) == Append(q, i)

\* Faulty variant of UpdateHandlerReturn: the handler hands back the value
\* the source callback computes from the current state.
UpdateHandlerReturnsState(callback, params, args) ==
  Apply(callback, <<IF HasSentinel(state) THEN state[STATE_PROPERTY_NAME] ELSE state>>
                    \o params \o args)

\* What an update handler returns to its caller: its body (lines 104-141)
\* has no return statement.
UpdateHandlerReturn(callback, params, args) == Undefined

\* Faulty variant of Teardown: the cache is left in place.
TeardownKeeps(memo) == memo

\* componentWillUnmount's assignment (line 41).
Teardown(memo) == Null

\* Faulty variant of RejectsAnonymous: the guard of lines 50-59 is missing.
RejectsNothing(callback) == FALSE

RejectsAnonymous(callback) == ~production /\ CallbackName(callback) = ""

\* Faulty variant of CacheKey: the factory's name is left out of the id.
CacheKeyWithoutName(name, callback, params) ==
  stringifyFunction(callback) \o stringify(params)

CacheKey(name, callback, params) ==
  name \o stringifyFunction(callback) \o stringify(params)

\* Faulty variant of IsMiss: every call is treated as a miss.
IsMissAlways(memo, id) == TRUE

IsMiss(memo, id) == id \notin DOMAIN memo

\* Faulty variant of IsStale: every stored entry is taken to be out of date.
IsStaleAlways(entry, callback) == TRUE

\* Faulty variant of IsStale: the stored callback is never compared.
IsStaleNever(entry, callback) == FALSE

IsStale(entry, callback) == entry.callback # callback

\* Faulty variant of StoreEntry: the cache holds the latest entry only.
StoreEntryEvicts(memo, id, callback, handler) ==
  [k \in {id} |-> [callback |-> callback, handler |-> handler]]

\* Faulty variant of StoreEntry: an existing entry is kept, so the key
\* remembers the first callback it saw.
StoreEntryKeepsFirst(memo, id, callback, handler) ==
  [k \in DOMAIN memo \cup {id} |->
     IF k \in DOMAIN memo THEN memo[k]
     ELSE [callback |-> callback, handler |-> handler]]

\* Faulty variant of StoreEntry: an existing entry gets the new callback
\* but keeps the handler it had.
StoreEntryKeepsHandler(memo, id, callback, handler) ==
  [k \in DOMAIN memo \cup {id} |->
     IF k # id THEN memo[k]
     ELSE IF id \in DOMAIN memo
          THEN [callback |-> callback, handler |-> memo[id].handler]
          ELSE [callback |-> callback, handler |-> handler]]

StoreEntry(memo, id, callback, handler) ==
  [k \in DOMAIN memo \cup {id} |->
     IF k = id THEN [callback |-> callback, handler |-> handler] ELSE memo[k]]

\* Faulty variant of BoundCallback: the handler looks its callback up in the
\* cache entry of its key each time it runs.
BoundCallbackFromCache(h) ==
  LET id == CacheKey(handlers[h].kind, handlers[h].callback, handlers[h].params)
  IN  IF memoizedCallbackHandlers # Null /\ id \in DOMAIN memoizedCallbackHandlers[1]
      THEN memoizedCallbackHandlers[1][id].callback
      ELSE handlers[h].callback

\* The callback a handler calls: the `callback` its closure captured when
\* createHandler built it (lines 91-92 and 103-104, used at 92, 124, 129).
BoundCallback(h) == handlers[h].callback

\* The outcome of this.handle(callback, ...params) or this.update(...):
\* the cache and the handler table afterwards, the value returned and
\* whether createHandler was invoked.
CreateCallbackHandler(name, callback, params) ==
  LET same == [memo |-> memoizedCallbackHandlers, handlers |-> handlers,
               ret |-> NOOP, built |-> FALSE]
      fresh == Len(handlers) + 1
      memo == memoizedCallbackHandlers[1]
      id == CacheKey(name, callback, params)
      build == [memo |-> Some(StoreEntry(memo, id, callback, fresh)),
                handlers |-> Append(handlers, CreateHandler(name, callback, params)),
                ret |-> fresh, built |-> TRUE]
  IN  IF RejectsAnonymous(callback) THEN same
      ELSE IF memoizedCallbackHandlers = Null THEN [same EXCEPT !.ret = THROWN]
      ELSE IF IsMiss(memo, id) THEN build
      ELSE IF IsStale(memo[id], callback) THEN build
      ELSE [same EXCEPT !.ret = memo[id].handler]

(***************************************************************************)
(* The state container: constructor (lines 24-34), the updater passed to   *)
(* setState (lines 122-134), React's shallow merge of the partial state,   *)
(* and the unwrapping done by render (lines 148-151).                      *)
(***************************************************************************)
InitialValue(v) == [isFunction |-> FALSE, value |-> v]
InitialFunction == [isFunction |-> TRUE, value |-> Undefined]

\* initialState given as a function: props => props.start
CallInitialState(p) == p.start

Configs ==
  { <<InitialValue(Obj(Num(0))), [start |-> Num(2)]>>,
    <<InitialFunction, [start |-> Num(1)]>> }

\* Faulty variant of ConstructorCalls: the function is evaluated a second time.
ConstructorCallsTwice(init, p) == IF init.isFunction THEN <<p, p>> ELSE <<>>

ConstructorCalls(init, p) == IF init.isFunction THEN <<p>> ELSE <<>>

WrapState(s) == IF IsPlainObject(s) THEN s ELSE (STATE_PROPERTY_NAME :> s)

ConstructorState(init, p) ==
  WrapState(IF init.isFunction THEN CallInitialState(p) ELSE init.value)

\* Faulty variant of Updater: the callback is given this.state as it is when the
\* update is processed, not the state React passes to the updater.
UpdaterStale(callback, params, args, s) ==
  LET argv == <<IF HasSentinel(state) THEN state[STATE_PROPERTY_NAME] ELSE state>>
                \o params \o args
      result == Apply(callback, argv)
  IN  [partial |-> IF HasSentinel(state) THEN (STATE_PROPERTY_NAME :> result)
                   ELSE result,
       call |-> [callback |-> callback, argv |-> argv, result |-> result]]

\* The updater handed to setState: the partial state it returns and the
\* call of the source callback it makes.
Updater(callback, params, args, s) ==
  LET argv == <<IF HasSentinel(s) THEN s[STATE_PROPERTY_NAME] ELSE s>>
                \o params \o args
      result == Apply(callback, argv)
  IN  [partial |-> IF HasSentinel(s) THEN (STATE_PROPERTY_NAME :> result)
                   ELSE result,
       call |-> [callback |-> callback, argv |-> argv, result |-> result]]

\* React: Object.assign({}, prevState, partialState); a partial state
\* without own enumerable properties leaves the state as it is.
MergeState(s, partial) == IF IsPlainObject(partial) THEN partial @@ s ELSE s

\* Faulty variant of RenderState: render passes this.state without unwrapping.
RenderStateRaw(s) == s

RenderState(s) == IF HasSentinel(s) THEN s[STATE_PROPERTY_NAME] ELSE s

(***************************************************************************)
(* The event scan of an update handler (lines 105-119): the first argument *)
(* with a persist function, or undefined.                                  *)
(***************************************************************************)
\* Faulty variant of FirstPersistable: the scan lacks its break and keeps the last.
RECURSIVE LastPersistable(_)
LastPersistable(args) ==
  IF Len(args) = 0 THEN Undefined
  ELSE IF HasPersist(args[Len(args)]) THEN args[Len(args)]
  ELSE LastPersistable(SubSeq(args, 1, Len(args) - 1))

RECURSIVE FirstPersistable(_)
FirstPersistable(args) ==
  IF Len(args) = 0 THEN Undefined
  ELSE IF HasPersist(Head(args)) THEN Head(args)
  ELSE FirstPersistable(Tail(args))

\* Faulty variant of CallPersist: every event the instance has seen so far
\* is persisted again, not only the tracked one.
CallPersistSeen(evs, event) ==
  IF Tag(event) = "event"
  THEN [e \in DOMAIN evs |->
          IF e = event.v \/ evs[e].persist > 0
          THEN [evs[e] EXCEPT !.persist = @ + 1] ELSE evs[e]]
  ELSE evs

CallPersist(evs, event) ==
  IF Tag(event) = "event"
  THEN [evs EXCEPT ![event.v].persist = @ + 1]
  ELSE evs

\* The setState completion callback (lines 135-139).
ReleasesEvent(event) == Tag(event) = "event" /\ HasDestructor(event)

\* Faulty variant of CallDestructor: the release is made twice.
CallDestructorTwice(evs, event) ==
  IF ReleasesEvent(event)
  THEN [evs EXCEPT ![event.v].destructor = @ + 1 + 1]
  ELSE evs

CallDestructor(evs, event) ==
  IF ReleasesEvent(event)
  THEN [evs EXCEPT ![event.v].destructor = @ + 1]
  ELSE evs

(***************************************************************************)
(* Initial state: the instance after its constructor and its mount render. *)
(***************************************************************************)
Init ==
  /\ production \in BOOLEAN
  /\ \E config \in Configs : initialState = config[1] /\ props = config[2]
  /\ initialStateCalls = ConstructorCalls(initialState, props)
  /\ state = ConstructorState(initialState, props)
  /\ memoizedCallbackHandlers = Some(<<>>)
  /\ handlers = <<>>
  /\ callLog = <<>>
  /\ invocations = <<>>
  /\ events = [e \in EventIds |-> [persist |-> 0, destructor |-> 0]]
  /\ queue = <<>>
  /\ workState = state
  /\ completions = <<>>
  /\ applied = <<>>
  /\ rendered = Some(RenderState(state))
  /\ phase = "idle"
  /\ mounted = TRUE

(***************************************************************************)
(* Actions.  JavaScript runs each of them to completion; React processes   *)
(* the pending updates, assigns this.state, renders and then runs the      *)
(* completion callbacks in one synchronous pass, which the phases follow.  *)
(***************************************************************************)

\* One entry of an invocation's trace: what was done, and on which event.
Step(op, e) == [op |-> op, event |-> e]

\* The wrapped component calls props.handle / props.update.
CallFactory(name, callback, params) ==
  /\ phase = "idle"
  /\ Len(callLog) + Len(invocations) < MaxOperations
  /\ LET out == CreateCallbackHandler(name, callback, params)
     IN  /\ memoizedCallbackHandlers' = out.memo
         /\ handlers' = out.handlers
         /\ callLog' = Append(callLog,
              [kind |-> name, callback |-> callback, params |-> params,
               ret |-> out.ret, built |-> out.built,
               live |-> memoizedCallbackHandlers # Null,
               before |-> memoizedCallbackHandlers, after |-> out.memo])
  /\ UNCHANGED <<production, initialState, props, initialStateCalls, state,
                 invocations, events, queue, workState, completions, applied,
                 rendered, phase, mounted>>

\* The handlers a caller can hold: every one a factory call has returned.
Issued == {callLog[i].ret : i \in 1..Len(callLog)} \ {THROWN}

\* A handler built by `handle` is invoked (lines 91-93).
InvokeHandle(h, args) ==
  /\ phase = "idle"
  /\ Len(callLog) + Len(invocations) < MaxOperations
  /\ h \in Issued /\ h # NOOP /\ handlers[h].kind = "handle"
  /\ LET argv == HandleArgv(handlers[h].params, args)
         result == Apply(BoundCallback(h), argv)
     IN  invocations' = Append(invocations,
           [handler |-> h, args |-> args, event |-> Undefined,
            calls |-> <<[callback |-> BoundCallback(h), argv |-> argv,
                         result |-> result]>>,
            trace |-> <<Step("call", 0)>>, returned |-> result])
  /\ UNCHANGED <<production, initialState, props, initialStateCalls, state,
                 memoizedCallbackHandlers, handlers, callLog, events, queue,
                 workState, completions, applied, rendered, phase, mounted>>

\* A handler built by `update` is invoked (lines 104-141): the event scan,
\* persist(), and the setState request.  React keeps the request of an
\* unmounted instance in the queue and never processes it.
InvokeUpdate(h, args) ==
  /\ phase = "idle"
  /\ Len(callLog) + Len(invocations) < MaxOperations
  /\ h \in Issued /\ h # NOOP /\ handlers[h].kind = "update"
  /\ LET event == FirstPersistable(args)
     IN  /\ events' = CallPersist(events, event)
         /\ invocations' = Append(invocations,
              [handler |-> h, args |-> args, event |-> event, calls |-> <<>>,
               trace |-> IF Tag(event) = "event"
                         THEN <<Step("persist", event.v), Step("setState", 0)>>
                         ELSE <<Step("setState", 0)>>,
               returned |-> UpdateHandlerReturn(handlers[h].callback,
                                                handlers[h].params, args)])
         /\ queue' = Enqueue(queue, Len(invocations) + 1)
  /\ UNCHANGED <<production, initialState, props, initialStateCalls, state,
                 memoizedCallbackHandlers, handlers, callLog, workState,
                 completions, applied, rendered, phase, mounted>>

\* The shared noop of ./utils, returned for an anonymous callback, is invoked.
InvokeNoop(args) ==
  /\ phase = "idle"
  /\ Len(callLog) + Len(invocations) < MaxOperations
  /\ NOOP \in Issued
  /\ args = <<Ev(1)>>
  /\ invocations' = Append(invocations,
       [handler |-> NOOP, args |-> args, event |-> Undefined, calls |-> <<>>,
        trace |-> <<>>, returned |-> Undefined])
  /\ UNCHANGED <<production, initialState, props, initialStateCalls, state,
                 memoizedCallbackHandlers, handlers, callLog, events, queue,
                 workState, completions, applied, rendered, phase, mounted>>

\* React processes the next pending update: the updater of lines 122-134
\* runs on the state left by the updates processed before it.
ProcessUpdate ==
  /\ mounted
  /\ phase \in {"idle", "render"}
  /\ queue # <<>>
  /\ LET i == Head(queue)
         h == handlers[invocations[i].handler]
         run == Updater(BoundCallback(invocations[i].handler), h.params,
                        invocations[i].args, workState)
     IN  /\ workState' = MergeState(workState, run.partial)
         /\ invocations' = [invocations EXCEPT
              ![i].calls = Append(@, run.call),
              ![i].trace = Append(@, Step("transition", 0))]
         /\ completions' = Append(completions, i)
         /\ applied' = Append(applied, i)
  /\ queue' = Tail(queue)
  /\ phase' = "render"
  /\ UNCHANGED <<production, initialState, props, initialStateCalls, state,
                 memoizedCallbackHandlers, handlers, callLog, events, rendered,
                 mounted>>

\* All pending updates are processed: React assigns this.state and calls
\* render (lines 148-161).
CommitRender ==
  /\ phase = "render"
  /\ queue = <<>>
  /\ state' = workState
  /\ rendered' = Some(RenderState(workState))
  /\ invocations' = [i \in 1..Len(invocations) |->
       IF \E j \in 1..Len(completions) : completions[j] = i
       THEN [invocations[i] EXCEPT !.trace = Append(@, Step("commit", 0))]
       ELSE invocations[i]]
  /\ phase' = "commit"
  /\ UNCHANGED <<production, initialState, props, initialStateCalls,
                 memoizedCallbackHandlers, handlers, callLog, events, queue,
                 workState, completions, applied, mounted>>

\* React runs the next setState completion callback (lines 135-139).
RunCompletion ==
  /\ phase = "commit"
  /\ completions # <<>>
  /\ LET i == Head(completions)
         event == invocations[i].event
     IN  /\ events' = CallDestructor(events, event)
         /\ invocations' = [invocations EXCEPT ![i].trace =
              IF ReleasesEvent(event)
              THEN Append(@, Step("destructor", event.v)) ELSE @]
  /\ completions' = Tail(completions)
  /\ phase' = IF Tail(completions) = <<>> THEN "idle" ELSE "commit"
  /\ UNCHANGED <<production, initialState, props, initialStateCalls, state,
                 memoizedCallbackHandlers, handlers, callLog, queue, workState,
                 applied, rendered, mounted>>

\* The mount render or a re-render requested by the parent (lines 148-161).
Render ==
  /\ mounted
  /\ phase = "idle"
  /\ rendered' = Some(RenderState(state))
  /\ UNCHANGED <<production, initialState, props, initialStateCalls, state,
                 memoizedCallbackHandlers, handlers, callLog, invocations,
                 events, queue, workState, completions, applied, phase, mounted>>

\* componentWillUnmount (lines 40-42).
ComponentWillUnmount ==
  /\ mounted
  /\ phase = "idle"
  /\ memoizedCallbackHandlers' = Teardown(memoizedCallbackHandlers)
  /\ mounted' = FALSE
  /\ UNCHANGED <<production, initialState, props, initialStateCalls, state,
                 handlers, callLog, invocations, events, queue, workState,
                 completions, applied, rendered, phase>>

Next ==
  \/ \E site \in CallSites : CallFactory(site[1], site[2], site[3])
  \/ \E h \in 1..Len(handlers), args \in HandleArgLists : InvokeHandle(h, args)
  \/ \E h \in 1..Len(handlers), args \in ArgLists : InvokeUpdate(h, args)
  \/ InvokeNoop(<<Ev(1)>>)
  \/ ProcessUpdate
  \/ CommitRender
  \/ RunCompletion
  \/ Render
  \/ ComponentWillUnmount

Spec == Init /\ [][Next]_vars

\* React processes the pending updates of a mounted instance, then commits
\* them, then runs the completion callbacks of the committed updates.
LiveSpec ==
  /\ Spec
  /\ WF_vars(ProcessUpdate)
  /\ WF_vars(CommitRender)
  /\ WF_vars(RunCompletion)

(***************************************************************************)
(* Properties.                                                             *)
(***************************************************************************)
Named(callback) == CallbackName(callback) # ""

SameRequest(a, b) ==
  a.kind = b.kind /\ a.callback = b.callback /\ a.params = b.params

\* Two distinct callback references presented for the same cache key.
Colliding(a, b) ==
  /\ a.callback # b.callback
  /\ a.kind = b.kind /\ a.params = b.params
  /\ CacheKey(a.kind, a.callback, a.params) = CacheKey(b.kind, b.callback, b.params)

IsHandler(ret) == ret \in 1..Len(handlers)

\* C1 (Stability): two consecutive factory calls with the same kind, the
\* same named callback reference and the same bound parameters, both made on
\* a live instance, return the identical handler reference.
C1_Stability ==
  \A i \in 1..(Len(callLog) - 1) :
    ( /\ SameRequest(callLog[i], callLog[i + 1])
      /\ Named(callLog[i].callback)
      /\ callLog[i].live /\ callLog[i + 1].live )
    => /\ IsHandler(callLog[i].ret)
       /\ callLog[i + 1].ret = callLog[i].ret

C1_Witness ==
  \E i \in 1..(Len(callLog) - 1) :
    /\ SameRequest(callLog[i], callLog[i + 1])
    /\ Named(callLog[i].callback)
    /\ callLog[i].live /\ callLog[i + 1].live
    /\ callLog[i].built /\ ~callLog[i + 1].built

\* C2 (Invalidation): when a factory is called with f1 and next with a
\* distinct reference f2 that maps to the same cache key (same kind, same
\* bound parameters, same name and code), the two calls return different
\* handler references, the second handler is built from f2, and every
\* invocation of the second handler calls f2 and never f1.
C2_Invalidation ==
  \A i \in 1..(Len(callLog) - 1) :
    ( /\ Colliding(callLog[i], callLog[i + 1])
      /\ Named(callLog[i].callback)
      /\ callLog[i].live /\ callLog[i + 1].live )
    => /\ IsHandler(callLog[i].ret) /\ IsHandler(callLog[i + 1].ret)
       /\ callLog[i + 1].ret # callLog[i].ret
       /\ handlers[callLog[i + 1].ret].callback = callLog[i + 1].callback
       /\ \A j \in 1..Len(invocations) :
            invocations[j].handler = callLog[i + 1].ret =>
              \A c \in 1..Len(invocations[j].calls) :
                invocations[j].calls[c].callback = callLog[i + 1].callback

C2_Witness ==
  \E i \in 1..(Len(callLog) - 1) :
    /\ Colliding(callLog[i], callLog[i + 1])
    /\ callLog[i].live /\ callLog[i + 1].live
    /\ \E j \in 1..Len(invocations) :
         /\ invocations[j].handler = callLog[i + 1].ret
         /\ Len(invocations[j].calls) = 1
         /\ invocations[j].calls[1].callback = callLog[i + 1].callback

IsAnonymousCall(entry) == CallbackName(entry.callback) = ""

\* C3 as stated (Anonymous rejection): a factory call with an unnamed
\* callback creates no cache entry and leaves the mapping as it is, and any
\* two such calls return different (fresh) no-op functions.
C3_AsStated ==
  /\ \A i \in 1..Len(callLog) :
       IsAnonymousCall(callLog[i]) =>
         ~callLog[i].built /\ callLog[i].after = callLog[i].before
  /\ \A i, j \in 1..Len(callLog) :
       (i < j /\ IsAnonymousCall(callLog[i]) /\ IsAnonymousCall(callLog[j]))
         => callLog[i].ret # callLog[j].ret

\* C3 amended: outside production mode a factory call with an unnamed
\* callback builds no handler, leaves the cache mapping exactly as it was
\* and returns the one shared noop function of ./utils (the same reference
\* on every such call).
C3_AnonymousRejection ==
  ~production =>
    \A i \in 1..Len(callLog) :
      IsAnonymousCall(callLog[i]) =>
        /\ ~callLog[i].built
        /\ callLog[i].after = callLog[i].before
        /\ callLog[i].ret = NOOP

C3_Witness ==
  /\ ~production
  /\ \E i, j \in 1..Len(callLog) :
       /\ i < j
       /\ IsAnonymousCall(callLog[i]) /\ IsAnonymousCall(callLog[j])
       /\ callLog[i].live /\ callLog[i].before # Some(<<>>)

\* C6 (Teardown): once componentWillUnmount has run the cache mapping is
\* absent, and no later factory call returns a handler that was built (and
\* cached) before.
C6_Teardown ==
  /\ ~mounted => memoizedCallbackHandlers = Null
  /\ \A i \in 1..Len(callLog) :
       ~callLog[i].live =>
         \A j \in 1..(i - 1) :
           callLog[j].built => callLog[i].ret # callLog[j].ret

C6_Witness ==
  /\ ~mounted
  /\ \E i \in 1..Len(callLog) :
       /\ ~callLog[i].live
       /\ \E j \in 1..(i - 1) :
            /\ callLog[j].built
            /\ SameRequest(callLog[i], callLog[j])

\* The logical state the instance was constructed with.
InitialLogical ==
  IF initialState.isFunction THEN CallInitialState(props) ELSE initialState.value

SentinelWrapped(x) == IsPlainObject(x) /\ STATE_PROPERTY_NAME \in DOMAIN x

IsKind(inv, table, kind) ==
  inv.handler # NOOP /\ table[inv.handler].kind = kind

IsUpdateInvocation(inv) == IsKind(inv, handlers, "update")

IsHandleInvocation(inv) == IsKind(inv, handlers, "handle")

\* The positions of the steps named op in a trace.
Pos(trace, op) == {k \in 1..Len(trace) : trace[k].op = op}

\* The value returned by the transition function of the j-th applied update.
ResultOf(j) == invocations[applied[j]].calls[1].result

\* The state argument the j-th applied transition function received.
SeenBy(j) == invocations[applied[j]].calls[1].argv[1]

\* C4 (Scalar/record transparency): for an instance constructed with a
\* non-record value v, the state handed to the wrapped component and the
\* state handed to a source callback are never the sentinel-wrapped
\* record; the first transition receives v and each later one the value the
\* previous transition returned; and outside the processing of updates the
\* state handed to the wrapped component is v, or the value returned by the
\* last applied transition.
C4_ScalarTransparency ==
  ~IsPlainObject(InitialLogical) =>
    /\ ~SentinelWrapped(rendered[1])
    /\ \A i \in 1..Len(invocations) :
         \A c \in 1..Len(invocations[i].calls) :
           ~SentinelWrapped(invocations[i].calls[c].argv[1])
    /\ \A j \in 1..Len(applied) :
         SeenBy(j) = IF j = 1 THEN InitialLogical ELSE ResultOf(j - 1)
    /\ phase # "render" =>
         rendered[1] = IF applied = <<>> THEN InitialLogical
                       ELSE ResultOf(Len(applied))

C4_Witness ==
  /\ InitialLogical = Num(1)
  /\ phase = "idle"
  /\ Len(applied) = 2
  /\ rendered = Some(Num(4))

\* C5 as stated (Event persistence ordering): for every update-handler
\* invocation and every argument e of it that has persist and destructor,
\* e.persist() has been called for the invocation before its transition
\* function runs, and e.destructor() is called for it only after its
\* transition has been committed.
C5_AsStated ==
  \A i \in 1..Len(invocations) :
    IsUpdateInvocation(invocations[i]) =>
      \A a \in 1..Len(invocations[i].args) :
        LET e == invocations[i].args[a]
            trace == invocations[i].trace
        IN  (HasPersist(e) /\ HasDestructor(e)) =>
              /\ \A t \in Pos(trace, "transition") :
                   \E q \in 1..(t - 1) : trace[q] = Step("persist", e.v)
              /\ \A d \in Pos(trace, "destructor") :
                   trace[d].event = e.v => \E c \in Pos(trace, "commit") : c < d

\* C5 amended: for every update-handler invocation some argument of which
\* exposes persist, persist() is called on the first such argument e when
\* the handler is invoked, before the transition function runs, and on no
\* other argument; a destructor() call made for the invocation is made on
\* e and only after the invocation's transition has run and been committed.
C5_EventOrdering ==
  \A i \in 1..Len(invocations) :
    IsUpdateInvocation(invocations[i]) =>
      LET args == invocations[i].args
          trace == invocations[i].trace
          persistable == {a \in 1..Len(args) : HasPersist(args[a])}
      IN  persistable # {} =>
            LET first == CHOOSE a \in persistable :
                           \A b \in persistable : a <= b
                e == args[first].v
            IN  /\ trace[1] = Step("persist", e)
                /\ Pos(trace, "persist") = {1}
                /\ \A t \in Pos(trace, "transition") : t > 1
                /\ \A d \in Pos(trace, "destructor") :
                     /\ trace[d].event = e
                     /\ \E c \in Pos(trace, "commit") :
                          /\ c < d
                          /\ \E t \in Pos(trace, "transition") : t < c

C5_Witness ==
  \E i \in 1..Len(invocations) :
    /\ IsUpdateInvocation(invocations[i])
    /\ invocations[i].args = <<Num(2), Ev(1), Ev(2)>>
    /\ invocations[i].trace =
         <<Step("persist", 1), Step("setState", 0), Step("transition", 0),
           Step("commit", 0), Step("destructor", 1)>>
    /\ events[1].destructor = 1

\* C7 (Record-state example): from the initial state { count: 0 }, when the
\* updates applied so far are k invocations of one handler built by
\* update(increment, step), the state after them is { count: k * step },
\* whether they were committed one by one or in one batch.
C7_RecordExample ==
  ( /\ InitialLogical = Obj(Num(0))
    /\ applied # <<>>
    /\ LET h == invocations[applied[1]].handler
       IN  /\ handlers[h].callback \in {"incA", "incB"}
           /\ \A j \in 1..Len(applied) : invocations[applied[j]].handler = h )
  => LET step == handlers[invocations[applied[1]].handler].params[1].v
         expected == Obj(Num(Len(applied) * step))
     IN  /\ workState = expected
         /\ phase # "render" => state = expected /\ rendered = Some(expected)

C7_Witness ==
  /\ InitialLogical = Obj(Num(0))
  /\ phase = "commit"
  /\ Len(completions) = 2
  /\ invocations[applied[1]].handler = invocations[applied[2]].handler
  /\ handlers[invocations[applied[1]].handler].callback = "incA"
  /\ state = Obj(Num(4))

\* C8 (Forward handler): an invocation of a handler built by handle calls
\* the source callback exactly once, with the bound parameters followed by
\* the call-time arguments, and returns the callback's result; the step
\* leaves the component state, the pending updates and the events alone.
C8_ForwardHandler ==
  [][ /\ \A i \in 1..Len(invocations') :
           IsKind(invocations'[i], handlers', "handle") =>
             LET inv == invocations'[i]
                 h == handlers'[inv.handler]
             IN  /\ Len(inv.calls) = 1
                 /\ inv.calls[1].callback = h.callback
                 /\ inv.calls[1].argv = h.params \o inv.args
                 /\ inv.calls[1].result = Apply(h.callback, h.params \o inv.args)
                 /\ inv.returned = inv.calls[1].result
      /\ ( /\ Len(invocations') = Len(invocations) + 1
           /\ IsKind(invocations'[Len(invocations')], handlers', "handle") )
         => /\ state' = state /\ workState' = workState
            /\ queue' = queue /\ completions' = completions
            /\ applied' = applied /\ events' = events
    ]_vars

C8_Witness ==
  \E i \in 1..Len(invocations) :
    /\ IsHandleInvocation(invocations[i])
    /\ invocations[i].args = <<Num(2)>>
    /\ invocations[i].calls[1].argv = <<Num(1), Num(2)>>
    /\ queue # <<>>

\* C9 (Construction): an initial state given as a function has been invoked
\* exactly once, by the constructor and with the instance's props, whatever
\* renders, factory calls, handler invocations and commits have followed.
C9_Construction ==
  initialState.isFunction => initialStateCalls = <<props>>

C9_Witness ==
  /\ initialState.isFunction
  /\ phase = "idle"
  /\ applied # <<>>
  /\ Len(callLog) >= 2
  /\ ~mounted

\* The logical state after the first j applied transitions, computed from
\* the values the transition functions returned.
RECURSIVE LogicalAfter(_)
LogicalAfter(j) ==
  IF j = 0 THEN InitialLogical
  ELSE LET prev == LogicalAfter(j - 1)
           r == ResultOf(j)
       IN  IF ~IsPlainObject(InitialLogical) THEN r
           ELSE IF IsPlainObject(r) THEN r @@ prev ELSE prev

Occurrences(seq, x) == Cardinality({k \in 1..Len(seq) : seq[k] = x})

\* C10 (Commit ordering): every update-handler invocation has requested
\* exactly one transition, from the moment it was invoked; transitions are
\* applied in the order of the invocations, none applied twice or ahead of
\* an earlier pending one; and each transition function receives the
\* logical state left by the transition applied before it.
C10_CommitOrdering ==
  /\ \A i \in 1..Len(invocations) :
       IsUpdateInvocation(invocations[i]) =>
         /\ Cardinality(Pos(invocations[i].trace, "setState")) = 1
         /\ Occurrences(applied \o queue, i) = 1
  /\ \A a, b \in 1..Len(applied \o queue) :
       a < b => (applied \o queue)[a] < (applied \o queue)[b]
  /\ \A j \in 1..Len(applied) : SeenBy(j) = LogicalAfter(j - 1)

C10_Witness ==
  /\ phase = "commit"
  /\ Len(completions) = 2
  /\ Len(applied) = 2
  /\ SeenBy(2) # SeenBy(1)
  /\ SeenBy(2) = LogicalAfter(1)
  /\ invocations[applied[1]].handler # invocations[applied[2]].handler

\* C11 (Asynchronous commit): the step in which an update handler is
\* invoked returns undefined to the caller and leaves this.state, the state
\* being computed and the state handed to the wrapped component as they
\* were; this.state changes only in the step in which React commits the
\* processed updates.
C11_AsynchronousCommit ==
  [][ /\ ( /\ Len(invocations') = Len(invocations) + 1
           /\ IsKind(invocations'[Len(invocations')], handlers', "update") )
         => /\ invocations'[Len(invocations')].returned = Undefined
            /\ invocations'[Len(invocations')].calls = <<>>
            /\ state' = state /\ workState' = workState
            /\ rendered' = rendered /\ applied' = applied
      /\ state' # state => (phase = "render" /\ phase' = "commit")
    ]_vars

C11_Witness ==
  /\ phase = "idle"
  /\ Len(applied) = 1
  /\ state # ConstructorState(initialState, props)
  /\ Len(queue) = 1
  /\ invocations[queue[1]].returned = Undefined

\* The events on which an invocation's trace records the given call.
EventsOf(trace, op) == {trace[k].event : k \in Pos(trace, op)}

\* The first of the arguments that has a persist method, if any.
FirstWithPersist(args) ==
  {args[a].v : a \in {p \in 1..Len(args) :
                        /\ HasPersist(args[p])
                        /\ \A b \in 1..(p - 1) : ~HasPersist(args[b])}}

\* The update-handler invocations whose first persistable argument is e.
TrackedBy(e) ==
  {i \in 1..Len(invocations) :
     /\ IsUpdateInvocation(invocations[i])
     /\ e \in FirstWithPersist(invocations[i].args)}

\* C12 (Single tracked event): an update-handler invocation calls persist()
\* once, on the first of its call-time arguments that has a persist method,
\* and only that object is ever handed to destructor() for the invocation;
\* an invocation none of whose arguments has persist makes no persist and no
\* destructor call; so each event has been persisted exactly once per
\* invocation that tracks it, and an event that was only ever a later
\* argument has had neither method called.
C12_SingleTrackedEvent ==
  /\ \A i \in 1..Len(invocations) :
       IsUpdateInvocation(invocations[i]) =>
         LET trace == invocations[i].trace
             mine == FirstWithPersist(invocations[i].args)
         IN  /\ Cardinality(mine) <= 1
             /\ EventsOf(trace, "persist") = mine
             /\ Cardinality(Pos(trace, "persist")) = Cardinality(mine)
             /\ EventsOf(trace, "destructor") \subseteq mine
  /\ \A e \in EventIds :
       /\ events[e].persist = Cardinality(TrackedBy(e))
       /\ TrackedBy(e) = {} => events[e].destructor = 0

C12_Witness ==
  \E i, j \in 1..Len(invocations) :
    /\ IsUpdateInvocation(invocations[i])
    /\ IsUpdateInvocation(invocations[j])
    /\ invocations[i].args = <<Num(2), Ev(1), Ev(2)>>
    /\ EventsOf(invocations[i].trace, "destructor") = {1}
    /\ invocations[j].args = <<>>
    /\ Pos(invocations[j].trace, "commit") # {}
    /\ events[1].persist = 1 /\ events[1].destructor = 1
    /\ events[2].persist = 0 /\ events[2].destructor = 0

\* The invocations for which destructor() has been called on event e.
ReleasedFor(e) ==
  {i \in 1..Len(invocations) : e \in EventsOf(invocations[i].trace, "destructor")}

\* C13 (Idempotent release): for every update-handler invocation the
\* completion callback has run at most once and destructor() has been
\* called at most once for it; the number of destructor() calls an event has
\* received is the number of invocations released on it, never more than
\* the number of times it was persisted, also after teardown.
C13_IdempotentRelease ==
  /\ \A i \in 1..Len(invocations) :
       /\ Cardinality(Pos(invocations[i].trace, "destructor")) <= 1
       /\ Cardinality(Pos(invocations[i].trace, "commit")) <= 1
       /\ Occurrences(completions, i) <= 1
       /\ Occurrences(completions, i) = 1 =>
            Pos(invocations[i].trace, "destructor") = {}
  /\ \A e \in EventIds :
       /\ events[e].destructor = Cardinality(ReleasedFor(e))
       /\ events[e].destructor <= events[e].persist

C13_Witness ==
  /\ ~mounted
  /\ events[1].persist = 2
  /\ events[1].destructor = 1
  /\ Cardinality(ReleasedFor(1)) = 1
  /\ \E i \in 1..Len(queue) : queue[i] \in TrackedBy(1)

\* The invocation persisted an event that has a destructor.
HoldsEvent(i) ==
  /\ i \in 1..Len(invocations)
  /\ \E e \in EventIds : i \in TrackedBy(e) /\ HasDestructor(Ev(e))

Released(i) == Pos(invocations[i].trace, "destructor") # {}

\* C14 (Eventual release): every event persisted by an update-handler
\* invocation and having a destructor eventually has its destructor invoked
\* for that invocation, React being fair to the processing, the commit and
\* the completion callbacks of the updates of a mounted instance.
C14_AsStated ==
  \A i \in 1..MaxOperations : HoldsEvent(i) ~> (HoldsEvent(i) /\ Released(i))

\* The cache key a factory call presents.
KeyOf(entry) == CacheKey(entry.kind, entry.callback, entry.params)

\* A factory call on a live instance whose key is in the cache with the
\* very callback presented.
IsHit(entry) ==
  /\ entry.live
  /\ KeyOf(entry) \in DOMAIN entry.before[1]
  /\ entry.before[1][KeyOf(entry)].callback = entry.callback

\* C15 (Cache hit has no effect): a handle or update call with a named
\* callback whose key has an entry storing that same callback reference
\* invokes no builder, returns the stored handler and leaves the cache
\* mapping, keys and entries, exactly as it was.
C15_CacheHit ==
  \A i \in 1..Len(callLog) :
    (Named(callLog[i].callback) /\ IsHit(callLog[i])) =>
      /\ ~callLog[i].built
      /\ callLog[i].after = callLog[i].before
      /\ callLog[i].ret = callLog[i].before[1][KeyOf(callLog[i])].handler

C15_Witness ==
  \E i \in 1..Len(callLog) :
    /\ Named(callLog[i].callback) /\ IsHit(callLog[i])
    /\ Cardinality(DOMAIN callLog[i].before[1]) = 2
    /\ callLog[i].kind = "handle"
    /\ ~callLog[i].built
    /\ memoizedCallbackHandlers = callLog[i].before

\* C16 (Entry consistency): while the instance is live, the handler of
\* every cache entry is one built by the builder of the kind in the entry's
\* key, from the callback stored in the entry and the parameters in the key;
\* a factory call changes the callback of an entry exactly when it changes
\* its handler.
C16_EntryConsistency ==
  /\ memoizedCallbackHandlers # Null =>
       \A k \in DOMAIN memoizedCallbackHandlers[1] :
         LET entry == memoizedCallbackHandlers[1][k]
         IN  /\ IsHandler(entry.handler)
             /\ handlers[entry.handler].callback = entry.callback
             /\ k = CacheKey(handlers[entry.handler].kind, entry.callback,
                             handlers[entry.handler].params)
             /\ \E i \in 1..Len(callLog) :
                  /\ callLog[i].built /\ callLog[i].ret = entry.handler
                  /\ callLog[i].callback = entry.callback /\ KeyOf(callLog[i]) = k
  /\ \A i \in 1..Len(callLog) :
       callLog[i].live =>
         \A k \in DOMAIN callLog[i].before[1] :
           /\ k \in DOMAIN callLog[i].after[1]
           /\ (callLog[i].after[1][k].callback = callLog[i].before[1][k].callback)
                <=> (callLog[i].after[1][k].handler = callLog[i].before[1][k].handler)

C16_Witness ==
  /\ memoizedCallbackHandlers # Null
  /\ \E i \in 1..(Len(callLog) - 1) :
       /\ Colliding(callLog[i], callLog[i + 1])
       /\ callLog[i].live /\ callLog[i + 1].live
       /\ memoizedCallbackHandlers[1][KeyOf(callLog[i])] =
            [callback |-> callLog[i + 1].callback, handler |-> callLog[i + 1].ret]
       /\ Cardinality(DOMAIN memoizedCallbackHandlers[1]) = 2

\* Calls i < j < k are the consecutive presentations of one key on a live
\* instance, with callback f1, then a distinct f2, then f1 again, the first
\* of them not finding f1 already stored.
IsF1F2F1(i, j, k) ==
  /\ i < j /\ j < k
  /\ callLog[i].live /\ callLog[j].live /\ callLog[k].live
  /\ Named(callLog[i].callback)
  /\ Colliding(callLog[i], callLog[j])
  /\ SameRequest(callLog[i], callLog[k])
  /\ \A m \in (i + 1)..(k - 1) : m # j => KeyOf(callLog[m]) # KeyOf(callLog[i])
  /\ ~IsHit(callLog[i])

\* C17 (Only the last-seen callback is remembered per key): when one key is
\* presented with f1, then with a distinct reference f2, then with f1 again
\* (same kind, same bound parameters), each of the three calls builds a
\* handler, and the third call returns a reference that is neither the
\* first call's nor the second's.
C17_LastSeenOnly ==
  \A i, j, k \in 1..Len(callLog) :
    IsF1F2F1(i, j, k) =>
      /\ callLog[i].built /\ callLog[j].built /\ callLog[k].built
      /\ IsHandler(callLog[i].ret) /\ IsHandler(callLog[j].ret)
      /\ IsHandler(callLog[k].ret)
      /\ callLog[k].ret # callLog[i].ret
      /\ callLog[k].ret # callLog[j].ret
      /\ handlers[callLog[k].ret] = handlers[callLog[i].ret]

C17_Witness ==
  \E i, j, k \in 1..Len(callLog) :
    /\ IsF1F2F1(i, j, k)
    /\ callLog[k].built
    /\ callLog[k].ret # callLog[i].ret
    /\ memoizedCallbackHandlers # Null
    /\ memoizedCallbackHandlers[1][KeyOf(callLog[i])].handler = callLog[k].ret

\* The factory call that built handler h.
BuiltBy(h) == CHOOSE i \in 1..Len(callLog) : callLog[i].built /\ callLog[i].ret = h

\* C18 (Issued handlers are fixed): every call a handler invocation has made
\* of a source callback was a call of the callback the handler was built
\* from, with the bound parameters it was built with, whatever has become of
\* the handler's cache entry (replaced by an invalidating call, or discarded
\* by teardown) before the call; and what a built handler captured never
\* changes.
C18_IssuedHandlersFixed ==
  /\ \A i \in 1..Len(callLog) :
       callLog[i].built =>
         /\ IsHandler(callLog[i].ret)
         /\ handlers[callLog[i].ret] =
              CreateHandler(callLog[i].kind, callLog[i].callback, callLog[i].params)
         /\ \A j \in 1..Len(callLog) :
              (callLog[j].built /\ callLog[j].ret = callLog[i].ret) => j = i
  /\ \A n \in 1..Len(invocations) :
       invocations[n].handler # NOOP =>
         LET b == callLog[BuiltBy(invocations[n].handler)]
         IN  \A c \in 1..Len(invocations[n].calls) :
               LET call == invocations[n].calls[c]
               IN  /\ call.callback = b.callback
                   /\ IF b.kind = "handle"
                      THEN call.argv = b.params \o invocations[n].args
                      ELSE Tail(call.argv) = b.params \o invocations[n].args

\* The transition of a handler whose cache entry an invalidating call has
\* replaced has just run.
C18_Witness ==
  /\ phase = "render"
  /\ memoizedCallbackHandlers # Null
  /\ LET n == applied[Len(applied)]
         h == invocations[n].handler
         b == callLog[BuiltBy(h)]
     IN  /\ Len(invocations[n].calls) = 1
         /\ invocations[n].calls[1].callback = b.callback
         /\ memoizedCallbackHandlers[1][KeyOf(b)].handler # h
         /\ memoizedCallbackHandlers[1][KeyOf(b)].callback # b.callback

\* The keys presented by the given factory calls.
KeysPresented(calls) == {KeyOf(callLog[i]) : i \in calls}

\* Between construction and teardown the cache is changed by factory calls
\* only, a call never loses a key, and an invalidating call keeps the key
\* set as it is.
KeysOnlyGrow ==
  /\ (memoizedCallbackHandlers # Null /\ callLog = <<>>) =>
       memoizedCallbackHandlers = Some(<<>>)
  /\ (memoizedCallbackHandlers # Null /\ callLog # <<>>) =>
       memoizedCallbackHandlers = callLog[Len(callLog)].after
  /\ \A i \in 1..Len(callLog) :
       callLog[i].live =>
         /\ callLog[i].before = IF i = 1 THEN Some(<<>>) ELSE callLog[i - 1].after
         /\ DOMAIN callLog[i].before[1] \subseteq DOMAIN callLog[i].after[1]
         /\ DOMAIN callLog[i].after[1] \subseteq
              DOMAIN callLog[i].before[1] \cup {KeyOf(callLog[i])}
         /\ ( /\ KeyOf(callLog[i]) \in DOMAIN callLog[i].before[1]
              /\ callLog[i].before[1][KeyOf(callLog[i])].callback # callLog[i].callback )
            => /\ callLog[i].built
               /\ DOMAIN callLog[i].after[1] = DOMAIN callLog[i].before[1]

NamedCalls == {i \in 1..Len(callLog) : Named(callLog[i].callback)}

\* C19 as stated (No eviction before teardown): the set of cache keys only
\* grows and equals the set of distinct keys presented so far with named
\* callbacks.
C19_AsStated ==
  /\ KeysOnlyGrow
  /\ memoizedCallbackHandlers # Null =>
       DOMAIN memoizedCallbackHandlers[1] = KeysPresented(NamedCalls)

AcceptedCalls ==
  {i \in 1..Len(callLog) : production \/ Named(callLog[i].callback)}

\* C19 amended: between construction and teardown the set of cache keys
\* only grows; it equals the set of distinct keys presented so far with
\* callbacks the factory did not reject, that is named callbacks and, in
\* production mode, unnamed callbacks too; an invalidating call replaces the
\* entry under its existing key without adding or removing a key, and no
\* call removes an entry.
C19_NoEviction ==
  /\ KeysOnlyGrow
  /\ memoizedCallbackHandlers # Null =>
       DOMAIN memoizedCallbackHandlers[1] = KeysPresented(AcceptedCalls)

C19_Witness ==
  /\ production
  /\ memoizedCallbackHandlers # Null
  /\ Cardinality(DOMAIN memoizedCallbackHandlers[1]) = 2
  /\ \E i, j \in 1..Len(callLog) :
       /\ IsAnonymousCall(callLog[i])
       /\ KeyOf(callLog[i]) \in DOMAIN memoizedCallbackHandlers[1]
       /\ j > 1 /\ Colliding(callLog[j - 1], callLog[j])
       /\ callLog[j].after # callLog[j].before
       /\ DOMAIN callLog[j].after[1] = DOMAIN callLog[j].before[1]

\* Every pair of a callback and bound parameters that some call site uses.
SiteRequests == {<<site[2], site[3]>> : site \in CallSites}

\* The keys a factory of the given kind uses for those pairs.
KeysOfKind(name) == {CacheKey(name, r[1], r[2]) : r \in SiteRequests}

HandleKeys == KeysOfKind("handle")
UpdateKeys == KeysOfKind("update")

\* C20 (Factory kinds are separated): for any callback and bound
\* parameters, the key handle uses differs from every key update uses; every
\* handler a factory has built and returned is of that factory's kind, so no
\* handler returned by handle has been returned by update or the reverse;
\* and a call through one factory leaves every entry created through the
\* other factory exactly as it was.
C20_KindsSeparated ==
  /\ HandleKeys \cap UpdateKeys = {}
  /\ \A i \in 1..Len(callLog) :
       IsHandler(callLog[i].ret) =>
         /\ handlers[callLog[i].ret].kind = callLog[i].kind
         /\ \A j \in 1..Len(callLog) :
              callLog[j].kind # callLog[i].kind => callLog[j].ret # callLog[i].ret
  /\ \A i \in 1..Len(callLog) :
       callLog[i].live =>
         \A k \in DOMAIN callLog[i].before[1] :
           handlers[callLog[i].before[1][k].handler].kind # callLog[i].kind =>
             /\ k \in DOMAIN callLog[i].after[1]
             /\ callLog[i].after[1][k] = callLog[i].before[1][k]

C20_Witness ==
  \E i, j, k \in 1..Len(callLog) :
    /\ i < j /\ j < k
    /\ callLog[i].kind = "handle" /\ callLog[j].kind = "update"
    /\ callLog[i].callback = callLog[j].callback
    /\ callLog[i].params = callLog[j].params
    /\ callLog[i].built /\ callLog[j].built
    /\ Colliding(callLog[j], callLog[k])
    /\ callLog[k].built
    /\ memoizedCallbackHandlers # Null
    /\ memoizedCallbackHandlers[1][KeyOf(callLog[i])].handler = callLog[i].ret
    /\ memoizedCallbackHandlers[1][KeyOf(callLog[k])].handler = callLog[k].ret
====
